---- MODULE Spec2Model ----
(***************************************************************************)
(* Buddy allocator of C_C++/BuddyMemoryAlgorithm/buddy.c.                  *)
(*                                                                         *)
(* Addresses are byte offsets from g_memory; NULL is a value outside the   *)
(* arena.  A free list is the sequence of the page indices linked into it, *)
(* first entry (head->next) first.  g_pages[i].addr and g_pages[i].index   *)
(* are written once by buddy_init and never again, so they are operators.  *)
(* The arena is the one of the spec's scenario (MIN_ORDER 12, MAX_ORDER    *)
(* 14) instead of the source's MAX_ORDER 20.                               *)
(***************************************************************************)
EXTENDS Integers, Sequences, FiniteSets, TLC

MIN_ORDER == 12
MAX_ORDER == 14
\* width of C's int on the builds considered
IntBits == 32

NULL == -1

\* 1 << n, for 0 <= n < IntBits - 1
Pow2(n) == 2 ^ n

PAGE_SIZE == Pow2(MIN_ORDER)
n_pages == Pow2(MAX_ORDER) \div PAGE_SIZE
Pages == 0 .. (n_pages - 1)
Orders == MIN_ORDER .. MAX_ORDER

\* C's integer division of a non-negative a by a non-zero b (truncates to 0)
CDiv(a, b) == IF b > 0 THEN a \div b ELSE -(a \div (-b))

PAGE_TO_ADDR(page_idx) == page_idx * PAGE_SIZE

ADDR_TO_PAGE(addr) == addr \div PAGE_SIZE

\* the mutant adds 2^o instead of flipping bit o
BUDDY_ADDR_plus(addr, o) == addr + Pow2(o)

\* (addr - g_memory) ^ (1 << o)
BUDDY_ADDR(addr, o) ==
    IF (addr \div Pow2(o)) % 2 = 0 THEN addr + Pow2(o) ELSE addr - Pow2(o)

(***************************************************************************)
(* list.h.  free_area[0 .. MIN_ORDER-1] is never given INIT_LIST_HEAD: a   *)
(* zeroed static head has next = NULL, which is not the head itself, so    *)
(* list_empty is false of it.                                              *)
(***************************************************************************)
list_empty(fa, o) == IF o \in Orders THEN fa[o] = << >> ELSE FALSE

list_add(fa, idx, o) == [fa EXCEPT ![o] = <<idx>> \o @]

list_del(fa, idx) == [o \in DOMAIN fa |-> SelectSeq(fa[o], LAMBDA x : x # idx)]

(***************************************************************************)
(* getOrder.  The result is [val |-> order or -1], or [ub |-> the outcomes *)
(* of the undefined behaviour the loop runs into]: a division by zero for  *)
(* size 0, and the overflowing shift 1 << 31 when the loop is still        *)
(* running at order IntBits - 1 (every size < 0 and every size > 2^30).    *)
(***************************************************************************)
Returned(v) == [ub |-> {}, val |-> v]
Undefined(outs) == [ub |-> outs, val |-> NULL]

\* the mutant also steps on when 2^order / size is exactly 1
RECURSIVE getOrderLoop_le(_, _)
getOrderLoop_le(size, order) ==
    IF size = 0 THEN Undefined({"fault", "hang"})
    ELSE IF order >= IntBits - 1
    THEN Undefined(IF size < 0 THEN {"reject", "fault", "hang"} ELSE {"fault", "hang"})
    ELSE IF CDiv(Pow2(order), size) <= 1
    THEN getOrderLoop_le(size, order + 1)
    ELSE IF order > MAX_ORDER THEN Returned(-1) ELSE Returned(order)

RECURSIVE getOrderLoop(_, _)
getOrderLoop(size, order) ==
    IF size = 0 THEN Undefined({"fault", "hang"})
    ELSE IF order >= IntBits - 1
    THEN Undefined(IF size < 0 THEN {"reject", "fault", "hang"} ELSE {"fault", "hang"})
    ELSE IF CDiv(Pow2(order), size) < 1
    THEN getOrderLoop(size, order + 1)
    ELSE IF order > MAX_ORDER THEN Returned(-1) ELSE Returned(order)

getOrder(size) == getOrderLoop(size, MIN_ORDER)

(***************************************************************************)
(* State.  order[i] is g_pages[i].order; free_area[o] is the free list of  *)
(* order o.  status is "ok" while the process runs; "fault" and "hang" are *)
(* a crashed and a never-returning call, "corrupt" a free list that is no  *)
(* longer a list.  allocated, op, arg and ret are the caller's view: the   *)
(* blocks it holds (address and order of the request), and the last call   *)
(* with its argument and result.                                           *)
(***************************************************************************)
VARIABLES order, free_area, allocated, status, op, arg, ret

vars == <<order, free_area, allocated, status, op, arg, ret>>

\* what a call that does not return leaves in ret
NORETURN == NULL - 1

Block(a, o) == [addr |-> a, order |-> o]

\* the addresses the caller holds
Held == {b.addr : b \in allocated}

Mem(ord, fa, r) == [order |-> ord, free_area |-> fa, ret |-> r]

RECURSIVE splitBlock(_, _, _, _)

\* the mutant leaves the allocated block in its free list
splitBlock_keep(st, currentOrder, endOrder, blockStartIndex) ==
    IF currentOrder = endOrder
    THEN Mem(st.order, st.free_area, PAGE_TO_ADDR(blockStartIndex))
    ELSE LET newOrder == currentOrder - 1
             rightBlockIndex ==
                 ADDR_TO_PAGE(BUDDY_ADDR(PAGE_TO_ADDR(blockStartIndex), newOrder))
             ord1 == [st.order EXCEPT ![blockStartIndex] = newOrder,
                                      ![rightBlockIndex] = newOrder]
             fa1 == list_del(st.free_area, blockStartIndex)
             fa2 == list_add(fa1, rightBlockIndex, newOrder)
             fa3 == list_add(fa2, blockStartIndex, newOrder)
         IN  splitBlock(Mem(ord1, fa3, st.ret), newOrder, endOrder, blockStartIndex)

\* the mutant does not put the right half into the free list
splitBlock_dropright(st, currentOrder, endOrder, blockStartIndex) ==
    IF currentOrder = endOrder
    THEN Mem(st.order, list_del(st.free_area, blockStartIndex),
             PAGE_TO_ADDR(blockStartIndex))
    ELSE LET newOrder == currentOrder - 1
             rightBlockIndex ==
                 ADDR_TO_PAGE(BUDDY_ADDR(PAGE_TO_ADDR(blockStartIndex), newOrder))
             ord1 == [st.order EXCEPT ![blockStartIndex] = newOrder,
                                      ![rightBlockIndex] = newOrder]
             fa1 == list_del(st.free_area, blockStartIndex)
             fa3 == list_add(fa1, blockStartIndex, newOrder)
         IN  splitBlock(Mem(ord1, fa3, st.ret), newOrder, endOrder, blockStartIndex)

\* the mutant does not write the order of the right half
splitBlock_rightorder(st, currentOrder, endOrder, blockStartIndex) ==
    IF currentOrder = endOrder
    THEN Mem(st.order, list_del(st.free_area, blockStartIndex),
             PAGE_TO_ADDR(blockStartIndex))
    ELSE LET newOrder == currentOrder - 1
             rightBlockIndex ==
                 ADDR_TO_PAGE(BUDDY_ADDR(PAGE_TO_ADDR(blockStartIndex), newOrder))
             ord1 == [st.order EXCEPT ![blockStartIndex] = newOrder]
             fa1 == list_del(st.free_area, blockStartIndex)
             fa2 == list_add(fa1, rightBlockIndex, newOrder)
             fa3 == list_add(fa2, blockStartIndex, newOrder)
         IN  splitBlock(Mem(ord1, fa3, st.ret), newOrder, endOrder, blockStartIndex)

splitBlock(st, currentOrder, endOrder, blockStartIndex) ==
    IF currentOrder = endOrder
    THEN Mem(st.order, list_del(st.free_area, blockStartIndex),
             PAGE_TO_ADDR(blockStartIndex))
    ELSE LET newOrder == currentOrder - 1
             rightBlockIndex ==
                 ADDR_TO_PAGE(BUDDY_ADDR(PAGE_TO_ADDR(blockStartIndex), newOrder))
             ord1 == [st.order EXCEPT ![blockStartIndex] = newOrder,
                                      ![rightBlockIndex] = newOrder]
             fa1 == list_del(st.free_area, blockStartIndex)
             fa2 == list_add(fa1, rightBlockIndex, newOrder)
             fa3 == list_add(fa2, blockStartIndex, newOrder)
         IN  splitBlock(Mem(ord1, fa3, st.ret), newOrder, endOrder, blockStartIndex)

\* the for loop of buddy_alloc: after freeOrder = -1 the loop's freeOrder++
\* runs, so the scan goes on at order 0
RECURSIVE scanFreeOrder(_, _)
\* the mutant looks at the next larger list first
scanFreeOrder_skip(fa, freeOrder) ==
    IF freeOrder > MAX_ORDER THEN freeOrder
    ELSE IF freeOrder < MAX_ORDER /\ ~list_empty(fa, freeOrder + 1) THEN freeOrder + 1
    ELSE IF ~list_empty(fa, freeOrder) THEN freeOrder
    ELSE IF freeOrder = MAX_ORDER THEN scanFreeOrder(fa, (-1) + 1)
    ELSE scanFreeOrder(fa, freeOrder + 1)

scanFreeOrder(fa, freeOrder) ==
    IF freeOrder > MAX_ORDER THEN freeOrder
    ELSE IF ~list_empty(fa, freeOrder) THEN freeOrder
    ELSE IF freeOrder = MAX_ORDER THEN scanFreeOrder(fa, (-1) + 1)
    ELSE scanFreeOrder(fa, freeOrder + 1)

RECURSIVE buddy_free(_, _)
\* the mutant looks for the buddy in the first entry of the list only
buddy_free_headonly(st, addr) ==
    IF addr = NULL THEN st
    ELSE LET pageToFree == ADDR_TO_PAGE(addr)
             o == st.order[pageToFree]
             buddyAddr == BUDDY_ADDR(PAGE_TO_ADDR(pageToFree), o)
             foundBuddy == PAGE_TO_ADDR(st.free_area[o][1]) = buddyAddr
             tempPage == ADDR_TO_PAGE(buddyAddr)
             leftBlockPage == IF tempPage < pageToFree THEN tempPage ELSE pageToFree
             rightBlockPage == IF tempPage < pageToFree THEN pageToFree ELSE tempPage
             ord1 == [st.order EXCEPT ![rightBlockPage] = -1,
                                      ![leftBlockPage] = st.order[leftBlockPage] + 1]
             merged == Mem(ord1, list_del(st.free_area, tempPage), st.ret)
         IN  IF list_empty(st.free_area, o)
             THEN Mem(st.order, list_add(st.free_area, pageToFree, o), st.ret)
             ELSE IF foundBuddy
             THEN IF ord1[leftBlockPage] <= MAX_ORDER
                  THEN buddy_free(merged, PAGE_TO_ADDR(leftBlockPage))
                  ELSE merged
             ELSE Mem(st.order, list_add(st.free_area, pageToFree, o), st.ret)

\* the mutant always keeps the freed page as the head of the merged block
buddy_free_keepself(st, addr) ==
    IF addr = NULL THEN st
    ELSE LET pageToFree == ADDR_TO_PAGE(addr)
             o == st.order[pageToFree]
             buddyAddr == BUDDY_ADDR(PAGE_TO_ADDR(pageToFree), o)
             foundBuddy == \E i \in 1 .. Len(st.free_area[o]) :
                               PAGE_TO_ADDR(st.free_area[o][i]) = buddyAddr
             tempPage == ADDR_TO_PAGE(buddyAddr)
             leftBlockPage == pageToFree
             rightBlockPage == tempPage
             ord1 == [st.order EXCEPT ![rightBlockPage] = -1,
                                      ![leftBlockPage] = st.order[leftBlockPage] + 1]
             merged == Mem(ord1, list_del(st.free_area, tempPage), st.ret)
         IN  IF list_empty(st.free_area, o)
             THEN Mem(st.order, list_add(st.free_area, pageToFree, o), st.ret)
             ELSE IF foundBuddy
             THEN IF ord1[leftBlockPage] <= MAX_ORDER
                  THEN buddy_free(merged, PAGE_TO_ADDR(leftBlockPage))
                  ELSE merged
             ELSE Mem(st.order, list_add(st.free_area, pageToFree, o), st.ret)

\* the mutant inserts the page only when the list is empty
buddy_free_emptyonly(st, addr) ==
    IF addr = NULL THEN st
    ELSE LET pageToFree == ADDR_TO_PAGE(addr)
             o == st.order[pageToFree]
             buddyAddr == BUDDY_ADDR(PAGE_TO_ADDR(pageToFree), o)
             foundBuddy == \E i \in 1 .. Len(st.free_area[o]) :
                               PAGE_TO_ADDR(st.free_area[o][i]) = buddyAddr
             tempPage == ADDR_TO_PAGE(buddyAddr)
             leftBlockPage == IF tempPage < pageToFree THEN tempPage ELSE pageToFree
             rightBlockPage == IF tempPage < pageToFree THEN pageToFree ELSE tempPage
             ord1 == [st.order EXCEPT ![rightBlockPage] = -1,
                                      ![leftBlockPage] = st.order[leftBlockPage] + 1]
             merged == Mem(ord1, list_del(st.free_area, tempPage), st.ret)
         IN  IF list_empty(st.free_area, o)
             THEN Mem(st.order, list_add(st.free_area, pageToFree, o), st.ret)
             ELSE IF foundBuddy
             THEN IF ord1[leftBlockPage] <= MAX_ORDER
                  THEN buddy_free(merged, PAGE_TO_ADDR(leftBlockPage))
                  ELSE merged
             ELSE st

\* the mutant does not reset the order of the absorbed right block
buddy_free_nomark(st, addr) ==
    IF addr = NULL THEN st
    ELSE LET pageToFree == ADDR_TO_PAGE(addr)
             o == st.order[pageToFree]
             buddyAddr == BUDDY_ADDR(PAGE_TO_ADDR(pageToFree), o)
             foundBuddy == \E i \in 1 .. Len(st.free_area[o]) :
                               PAGE_TO_ADDR(st.free_area[o][i]) = buddyAddr
             tempPage == ADDR_TO_PAGE(buddyAddr)
             leftBlockPage == IF tempPage < pageToFree THEN tempPage ELSE pageToFree
             rightBlockPage == IF tempPage < pageToFree THEN pageToFree ELSE tempPage
             ord1 == [st.order EXCEPT ![leftBlockPage] = st.order[leftBlockPage] + 1]
             merged == Mem(ord1, list_del(st.free_area, tempPage), st.ret)
         IN  IF list_empty(st.free_area, o)
             THEN Mem(st.order, list_add(st.free_area, pageToFree, o), st.ret)
             ELSE IF foundBuddy
             THEN IF ord1[leftBlockPage] <= MAX_ORDER
                  THEN buddy_free(merged, PAGE_TO_ADDR(leftBlockPage))
                  ELSE merged
             ELSE Mem(st.order, list_add(st.free_area, pageToFree, o), st.ret)

\* the mutant does not unlink the buddy it found
buddy_free_nodel(st, addr) ==
    IF addr = NULL THEN st
    ELSE LET pageToFree == ADDR_TO_PAGE(addr)
             o == st.order[pageToFree]
             buddyAddr == BUDDY_ADDR(PAGE_TO_ADDR(pageToFree), o)
             foundBuddy == \E i \in 1 .. Len(st.free_area[o]) :
                               PAGE_TO_ADDR(st.free_area[o][i]) = buddyAddr
             tempPage == ADDR_TO_PAGE(buddyAddr)
             leftBlockPage == IF tempPage < pageToFree THEN tempPage ELSE pageToFree
             rightBlockPage == IF tempPage < pageToFree THEN pageToFree ELSE tempPage
             ord1 == [st.order EXCEPT ![rightBlockPage] = -1,
                                      ![leftBlockPage] = st.order[leftBlockPage] + 1]
             merged == Mem(ord1, st.free_area, st.ret)
         IN  IF list_empty(st.free_area, o)
             THEN Mem(st.order, list_add(st.free_area, pageToFree, o), st.ret)
             ELSE IF foundBuddy
             THEN IF ord1[leftBlockPage] <= MAX_ORDER
                  THEN buddy_free(merged, PAGE_TO_ADDR(leftBlockPage))
                  ELSE merged
             ELSE Mem(st.order, list_add(st.free_area, pageToFree, o), st.ret)

buddy_free(st, addr) ==
    IF addr = NULL THEN st
    ELSE LET pageToFree == ADDR_TO_PAGE(addr)
             o == st.order[pageToFree]
             buddyAddr == BUDDY_ADDR(PAGE_TO_ADDR(pageToFree), o)
             foundBuddy == \E i \in 1 .. Len(st.free_area[o]) :
                               PAGE_TO_ADDR(st.free_area[o][i]) = buddyAddr
             tempPage == ADDR_TO_PAGE(buddyAddr)
             leftBlockPage == IF tempPage < pageToFree THEN tempPage ELSE pageToFree
             rightBlockPage == IF tempPage < pageToFree THEN pageToFree ELSE tempPage
             ord1 == [st.order EXCEPT ![rightBlockPage] = -1,
                                      ![leftBlockPage] = st.order[leftBlockPage] + 1]
             merged == Mem(ord1, list_del(st.free_area, tempPage), st.ret)
         IN  IF list_empty(st.free_area, o)
             THEN Mem(st.order, list_add(st.free_area, pageToFree, o), st.ret)
             ELSE IF foundBuddy
             THEN IF ord1[leftBlockPage] <= MAX_ORDER
                  THEN buddy_free(merged, PAGE_TO_ADDR(leftBlockPage))
                  ELSE merged
             ELSE Mem(st.order, list_add(st.free_area, pageToFree, o), st.ret)

\* the calls of buddy_free that buddy_free(addr) makes, itself first: the
\* page and order each call works on, whether it went on to scan the list
\* (line 206) and with which buddy address, and whether it merged
RECURSIVE buddy_free_calls(_, _)
buddy_free_calls(st, addr) ==
    IF addr = NULL THEN << >>
    ELSE LET pageToFree == ADDR_TO_PAGE(addr)
             o == st.order[pageToFree]
             buddyAddr == BUDDY_ADDR(PAGE_TO_ADDR(pageToFree), o)
             foundBuddy == \E i \in 1 .. Len(st.free_area[o]) :
                               PAGE_TO_ADDR(st.free_area[o][i]) = buddyAddr
             tempPage == ADDR_TO_PAGE(buddyAddr)
             leftBlockPage == IF tempPage < pageToFree THEN tempPage ELSE pageToFree
             rightBlockPage == IF tempPage < pageToFree THEN pageToFree ELSE tempPage
             ord1 == [st.order EXCEPT ![rightBlockPage] = -1,
                                      ![leftBlockPage] = st.order[leftBlockPage] + 1]
             merged == Mem(ord1, list_del(st.free_area, tempPage), st.ret)
             call(scanned, found) ==
                 [addr |-> PAGE_TO_ADDR(pageToFree), order |-> o, scanned |-> scanned,
                  buddyAddr |-> IF scanned THEN buddyAddr ELSE NULL, merged |-> found]
         IN  IF list_empty(st.free_area, o)
             THEN <<call(FALSE, FALSE)>>
             ELSE IF foundBuddy
             THEN IF ord1[leftBlockPage] <= MAX_ORDER
                  THEN <<call(TRUE, TRUE)>>
                           \o buddy_free_calls(merged, PAGE_TO_ADDR(leftBlockPage))
                  ELSE <<call(TRUE, TRUE)>>
             ELSE <<call(TRUE, FALSE)>>

\* the buddy addresses splitBlock computes (line 104), with the address and
\* the order they are computed for
RECURSIVE splitBlock_calls(_, _, _)
splitBlock_calls(currentOrder, endOrder, blockStartIndex) ==
    IF currentOrder = endOrder
    THEN << >>
    ELSE LET newOrder == currentOrder - 1
         IN  <<[addr |-> PAGE_TO_ADDR(blockStartIndex), order |-> newOrder,
                scanned |-> TRUE,
                buddyAddr |-> BUDDY_ADDR(PAGE_TO_ADDR(blockStartIndex), newOrder),
                merged |-> FALSE]>>
                 \o splitBlock_calls(newOrder, endOrder, blockStartIndex)

InitOrder == [i \in Pages |-> IF i = 0 THEN MAX_ORDER ELSE -1]
InitFreeArea == [o \in Orders |-> IF o = MAX_ORDER THEN <<0>> ELSE << >>]

\* the state buddy_init() leaves
Init ==
    /\ order = InitOrder
    /\ free_area = InitFreeArea
    /\ allocated = {}
    /\ status = "ok"
    /\ op = "init"
    /\ arg = 0
    /\ ret = NULL

\* the mutant leaves out the INIT_LIST_HEAD of the free lists
buddy_init_mem_nolists(st) ==
    LET ord1 == [i \in DOMAIN st.order |-> -1]
        fa2 == list_add(st.free_area, 0, MAX_ORDER)
    IN  Mem([ord1 EXCEPT ![0] = MAX_ORDER], fa2, st.ret)

\* the three steps of buddy_init on the memory it finds: every page gets
\* order -1, every free list of order MIN_ORDER..MAX_ORDER is emptied, page 0
\* is linked into free_area[MAX_ORDER] with order MAX_ORDER
buddy_init_mem(st) ==
    LET ord1 == [i \in DOMAIN st.order |-> -1]
        fa1 == [o \in DOMAIN st.free_area |-> << >>]
        fa2 == list_add(fa1, 0, MAX_ORDER)
    IN  Mem([ord1 EXCEPT ![0] = MAX_ORDER], fa2, st.ret)

\* buddy_init has no argument: arg keeps the number of blocks the caller
\* held, which the call makes void
buddy_init ==
    /\ status = "ok"
    /\ LET s == buddy_init_mem(Mem(order, free_area, NULL))
       IN  /\ order' = s.order
           /\ free_area' = s.free_area
    /\ allocated' = {}
    /\ status' = "ok"
    /\ op' = "init"
    /\ arg' = Cardinality(allocated)
    /\ ret' = NULL

\* the call returns r and changes nothing
ReturnOnly(r) ==
    /\ ret' = r
    /\ UNCHANGED <<order, free_area, allocated, status>>

\* the call runs into undefined behaviour before it wrote anything
Stops(out) ==
    /\ status' = out
    /\ ret' = NORETURN
    /\ UNCHANGED <<order, free_area, allocated>>

buddy_alloc(size) ==
    /\ status = "ok"
    /\ op' = "alloc"
    /\ arg' = size
    /\ LET orderOfRequest == getOrder(size)
           freeOrder == scanFreeOrder(free_area, orderOfRequest.val)
           blockStartIndex == ADDR_TO_PAGE(PAGE_TO_ADDR(Head(free_area[freeOrder])))
           s == splitBlock(Mem(order, free_area, NULL), freeOrder,
                           orderOfRequest.val, blockStartIndex)
       IN  IF orderOfRequest.ub # {}
           THEN \E out \in orderOfRequest.ub :
                    IF out = "reject" THEN ReturnOnly(NULL) ELSE Stops(out)
           ELSE IF orderOfRequest.val < 0 THEN ReturnOnly(NULL)
           ELSE IF freeOrder < 0 THEN ReturnOnly(NULL)
           ELSE IF freeOrder \notin Orders
           \* free_area[freeOrder].next is NULL and is dereferenced
           THEN \E out \in {"fault", "hang"} : Stops(out)
           ELSE /\ order' = s.order
                /\ free_area' = s.free_area
                /\ ret' = s.ret
                /\ allocated' = allocated \cup {Block(s.ret, orderOfRequest.val)}
                /\ status' = "ok"

\* some page is linked twice into the free lists
Relinked(fa) ==
    \E o1, o2 \in Orders : \E i \in 1 .. Len(fa[o1]) : \E j \in 1 .. Len(fa[o2]) :
        /\ fa[o1][i] = fa[o2][j]
        /\ <<o1, i>> # <<o2, j>>

FreeCall(addr) ==
    /\ status = "ok"
    /\ op' = "free"
    /\ arg' = addr
    /\ ret' = NULL
    /\ allocated' = {b \in allocated : b.addr # addr}
    /\ IF addr # NULL /\ (ADDR_TO_PAGE(addr) \notin Pages
                          \/ order[ADDR_TO_PAGE(addr)] \notin Orders)
       \* g_pages[] or free_area[] is indexed outside its bounds
       THEN /\ status' \in {"fault", "hang", "corrupt"}
            /\ UNCHANGED <<order, free_area>>
       ELSE LET s == buddy_free(Mem(order, free_area, NULL), addr)
            IN  /\ order' = s.order
                /\ free_area' = s.free_area
                /\ status' = IF Relinked(s.free_area) THEN "corrupt" ELSE "ok"

\* sizes a caller asks for
Sizes ==
    {1, 5000, Pow2(MAX_ORDER) + 1, Pow2(IntBits - 2), Pow2(IntBits - 2) + 1}
        \cup {Pow2(o) : o \in (MIN_ORDER - 1) .. MAX_ORDER}

NonPositiveSizes == {0, -1, -5000, -2147483647}

\* addresses a caller may pass to buddy_free without holding them
StrayAddrs == ({PAGE_TO_ADDR(p) : p \in Pages} \cup {Pow2(MAX_ORDER)}) \ Held

Alloc == \E size \in Sizes : buddy_alloc(size)

Free == \E addr \in Held : FreeCall(addr)

FreeNull == FreeCall(NULL)

AllocNonPositive == \E size \in NonPositiveSizes : buddy_alloc(size)

FreeInvalid == \E addr \in StrayAddrs : FreeCall(addr)

\* callers that keep to the contract of buddy_free and ask for positive sizes
Next == buddy_init \/ Alloc \/ Free \/ FreeNull

Spec == Init /\ [][Next]_vars

\* any caller
NextAny == buddy_init \/ Alloc \/ Free \/ FreeNull \/ AllocNonPositive \/ FreeInvalid

SpecAny == Init /\ [][NextAny]_vars

\* getOrder on its own: the sizes within Spread of a power of two, up to
\* just above the arena size
Spread == 4

OrderInputs ==
    {size \in 1 .. (Pow2(MAX_ORDER) + Spread) :
        \E o \in 0 .. MAX_ORDER : size - Pow2(o) \in (0 - Spread) .. Spread}

InitGetOrder ==
    /\ order = InitOrder
    /\ free_area = InitFreeArea
    /\ allocated = {}
    /\ status = "ok"
    /\ op = "input"
    /\ arg \in OrderInputs
    /\ ret = NULL

getOrderCall ==
    /\ op = "input"
    /\ op' = "getOrder"
    /\ LET r == getOrder(arg)
       IN  IF r.ub = {}
           THEN ret' = r.val /\ status' = "ok"
           ELSE \E out \in r.ub :
                    IF out = "reject"
                    THEN ret' = -1 /\ status' = "ok"
                    ELSE ret' = NORETURN /\ status' = out
    /\ UNCHANGED <<order, free_area, allocated, arg>>

SpecGetOrder == InitGetOrder /\ [][getOrderCall]_vars

TypeOK ==
    /\ order \in [Pages -> Orders \cup {-1}]
    /\ DOMAIN free_area = Orders
    /\ \A o \in Orders : \A i \in 1 .. Len(free_area[o]) : free_area[o][i] \in Pages
    /\ status \in {"ok", "fault", "hang", "corrupt"}

(***************************************************************************)
(* What the claims speak of.                                               *)
(***************************************************************************)
\* the pages of the block of order o at offset a
BlockPages(a, o) ==
    {p \in Pages : a <= p * Pow2(MIN_ORDER) /\ p * Pow2(MIN_ORDER) < a + Pow2(o)}

\* the entries of the free lists, by list and position
FreeSlots == UNION {{<<o, i>> : i \in 1 .. Len(free_area[o])} : o \in Orders}

SlotAddr(sl) == free_area[sl[1]][sl[2]] * Pow2(MIN_ORDER)

\* the number of blocks, free or held, that page p lies in
Covering(p) ==
    Cardinality({sl \in FreeSlots : p \in BlockPages(SlotAddr(sl), sl[1])})
        + Cardinality({b \in allocated : p \in BlockPages(b.addr, b.order)})

RECURSIVE SumBytes(_)
SumBytes(S) ==
    IF S = {} THEN 0
    ELSE LET x == CHOOSE y \in S : TRUE IN Pow2(x[2]) + SumBytes(S \ {x})

FreeBytes == SumBytes({<<sl, sl[1]>> : sl \in FreeSlots})
AllocatedBytes == SumBytes({<<b, b.order>> : b \in allocated})

\* offsets a and b differ in bit o and in no other bit
AreBuddies(a, b, o) ==
    /\ a \div Pow2(o + 1) = b \div Pow2(o + 1)
    /\ (a - b = Pow2(o) \/ b - a = Pow2(o))

\* the last call was a buddy_alloc that returned a block
AllocReturned == op = "alloc" /\ status = "ok" /\ ret # NULL

\* no free list of an order that can serve a request of order t has an entry
Exhausted(t) == \A o \in t .. MAX_ORDER : free_area[o] = << >>

\* C1: once the caller holds no block any more, the free lists are those
\* buddy_init leaves: page 0 alone in free_area[MAX_ORDER], all others empty.
C1_RoundTrip == allocated = {} => free_area = InitFreeArea

\* two blocks were held, the first was freed before the second, and the
\* second free merged everything back
C1_Witness ==
    /\ op = "free"
    /\ arg = PAGE_SIZE
    /\ allocated = {}
    /\ free_area = InitFreeArea

\* C2: any two blocks the caller holds occupy disjoint ranges
\* [addr, addr + 2^order).
C2_NoOverlap ==
    \A b1, b2 \in allocated :
        b1 # b2 => (b1.addr + Pow2(b1.order) <= b2.addr
                    \/ b2.addr + Pow2(b2.order) <= b1.addr)

C2_Witness ==
    /\ op = "alloc"
    /\ \E b1, b2 \in allocated : b1.order < b2.order

\* C3: a buddy_alloc whose request has order t while every free list of
\* order t..MAX_ORDER is empty returns NULL and changes neither the page
\* table nor the free lists.
C3_ExhaustionFails ==
    [][(/\ status = "ok"
        /\ op' = "alloc"
        /\ 0 < arg' /\ arg' <= Pow2(MAX_ORDER)
        /\ Exhausted(getOrder(arg').val))
       => (/\ status' = "ok"
           /\ ret' = NULL
           /\ order' = order
           /\ free_area' = free_area)]_vars

\* C4 as stated: a block returned for 0 < s <= 2^MAX_ORDER has an order o
\* with 2^(o-1) < s <= 2^o and o >= MIN_ORDER.
C4_OrderBracket ==
    (AllocReturned /\ 0 < arg /\ arg <= Pow2(MAX_ORDER))
        => LET o == order[ADDR_TO_PAGE(ret)]
           IN  /\ o >= MIN_ORDER
               /\ Pow2(o - 1) < arg
               /\ arg <= Pow2(o)

\* C4 (amended): a block returned for 0 < s <= 2^MAX_ORDER has an order o
\* with MIN_ORDER <= o <= MAX_ORDER and s <= 2^o, and 2^(o-1) < s unless
\* o = MIN_ORDER.
C4_SmallestOrder ==
    (AllocReturned /\ 0 < arg /\ arg <= Pow2(MAX_ORDER))
        => LET o == order[ADDR_TO_PAGE(ret)]
           IN  /\ o \in Orders
               /\ arg <= Pow2(o)
               /\ (o = MIN_ORDER \/ Pow2(o - 1) < arg)

\* a request of at most half a page got a whole page
C4_Witness ==
    /\ AllocReturned
    /\ 0 < arg
    /\ arg <= Pow2(MIN_ORDER - 1)
    /\ order[ADDR_TO_PAGE(ret)] = MIN_ORDER

\* C5: between calls no free list of an order o < MAX_ORDER holds two blocks
\* that are buddies of each other.
C5_NoFreeBuddies ==
    \A o \in MIN_ORDER .. (MAX_ORDER - 1) :
        \A i, j \in 1 .. Len(free_area[o]) :
            ~AreBuddies(free_area[o][i] * Pow2(MIN_ORDER),
                        free_area[o][j] * Pow2(MIN_ORDER), o)

\* a buddy_free put a block beside another one that is not its buddy
C5_Witness ==
    /\ op = "free"
    /\ status = "ok"
    /\ \E o \in MIN_ORDER .. (MAX_ORDER - 1) : Len(free_area[o]) >= 2

\* C6: the free blocks and the held blocks partition the arena: every page
\* lies in exactly one of them, and their sizes add up to 2^MAX_ORDER.
C6_Partition ==
    /\ \A p \in Pages : Covering(p) = 1
    /\ FreeBytes + AllocatedBytes = Pow2(MAX_ORDER)

C6_Witness ==
    /\ op = "free"
    /\ Cardinality(allocated) >= 1
    /\ \E s1, s2 \in FreeSlots : s1[1] < s2[1]

\* C7: buddy_alloc(size) with size > 2^MAX_ORDER returns NULL and changes
\* neither the page table nor the free lists.
C7_TooLargeFails ==
    [][(status = "ok" /\ op' = "alloc" /\ arg' > Pow2(MAX_ORDER))
       => (/\ status' = "ok"
           /\ ret' = NULL
           /\ order' = order
           /\ free_area' = free_area)]_vars

\* C8: the offset of a block returned for a request of order t is a
\* multiple of 2^t, and so is that of every block the caller holds.
C8_Aligned ==
    /\ AllocReturned =>
           \E b \in allocated : b.addr = ret /\ b.order = getOrder(arg).val
    /\ \A b \in allocated : b.addr % Pow2(b.order) = 0

\* a block above the minimum order was returned from inside the arena
C8_Witness ==
    /\ AllocReturned
    /\ ret > 0
    /\ \E b \in allocated : b.addr = ret /\ b.order > MIN_ORDER

\* C9: a buddy_free of an address the caller does not hold is reported and
\* changes neither the page table nor the free lists.
C9_InvalidFreeRejected ==
    [][(status = "ok" /\ op' = "free" /\ arg' # NULL /\ arg' \notin Held)
       => (/\ status' = "ok"
           /\ order' = order
           /\ free_area' = free_area)]_vars

\* C10: buddy_alloc(size) with size <= 0 returns, and returns either NULL or
\* a block of order MIN_ORDER.
C10_NonPositiveHandled ==
    (op = "alloc" /\ arg <= 0)
        => /\ status = "ok"
           /\ (ret = NULL \/ \E b \in allocated : b.addr = ret /\ b.order = MIN_ORDER)

\* C11: buddy_init, called in any state, leaves the state of the first
\* initialisation: page 0 alone in free_area[MAX_ORDER] with order
\* MAX_ORDER, every other list empty, every other page of order -1.
C11_InitResets ==
    [][op' = "init" => (/\ order' = InitOrder
                        /\ free_area' = InitFreeArea
                        /\ status' = "ok")]_vars

\* buddy_init was called while the caller held two blocks or more
C11_Witness ==
    /\ op = "init"
    /\ arg >= 2
    /\ order = InitOrder
    /\ free_area = InitFreeArea

\* the smallest order in MIN_ORDER..MAX_ORDER whose block holds size bytes
SmallestOrder(size) ==
    CHOOSE o \in Orders :
        /\ Pow2(o) >= size
        /\ \A q \in Orders : Pow2(q) >= size => o <= q

\* C12: for 0 < size <= 2^MAX_ORDER getOrder returns the smallest order o in
\* MIN_ORDER..MAX_ORDER with 2^o >= size: k for size 2^k, and MIN_ORDER for
\* every size up to 2^MIN_ORDER.
C12_GetOrderReference ==
    (op = "getOrder" /\ 0 < arg /\ arg <= Pow2(MAX_ORDER))
        => /\ status = "ok"
           /\ ret = SmallestOrder(arg)
           /\ \A k \in Orders : arg = Pow2(k) => ret = k
           /\ arg <= Pow2(MIN_ORDER) => ret = MIN_ORDER

\* getOrder answered for an exact power of two above the page size
C12_Witness ==
    /\ op = "getOrder"
    /\ arg = Pow2(MIN_ORDER + 1)
    /\ ret = MIN_ORDER + 1

\* the page a free-list entry links
SlotPage(sl) == free_area[sl[1]][sl[2]]

\* C13: between calls every page is linked into the free lists at most once;
\* a page in free_area[o] has order o, an offset that is a multiple of 2^o,
\* and heads a block no page of which lies in a held block or in another
\* free block; the head of a held block is in no free list.
C13_Membership ==
    /\ \A s1, s2 \in FreeSlots : s1 # s2 => SlotPage(s1) # SlotPage(s2)
    /\ \A sl \in FreeSlots :
           /\ order[SlotPage(sl)] = sl[1]
           /\ SlotAddr(sl) % Pow2(sl[1]) = 0
           /\ \A q \in BlockPages(SlotAddr(sl), sl[1]) :
                  /\ \A b \in allocated : q \notin BlockPages(b.addr, b.order)
                  /\ \A s2 \in FreeSlots :
                         s2 # sl => q \notin BlockPages(SlotAddr(s2), s2[1])
    /\ \A b \in allocated : \A sl \in FreeSlots : SlotAddr(sl) # b.addr

\* two free blocks in one list beside two held blocks
C13_Witness ==
    /\ status = "ok"
    /\ Cardinality(allocated) >= 2
    /\ \E o \in Orders : Len(free_area[o]) >= 2

\* the smallest order from t up whose free list has an entry
FirstFit(t) ==
    CHOOSE f \in t .. MAX_ORDER :
        /\ free_area[f] # << >>
        /\ \A g \in t .. (f - 1) : free_area[g] = << >>

\* a buddy_alloc step for a size the arena could hold, with a free block of
\* a sufficient order at hand
AllocStepServable ==
    /\ status = "ok"
    /\ op' = "alloc"
    /\ 0 < arg'
    /\ arg' <= Pow2(MAX_ORDER)
    /\ ~Exhausted(SmallestOrder(arg'))

\* C14: a buddy_alloc of target order t succeeds whenever a free list of
\* order t..MAX_ORDER has an entry, and takes the first entry of the list
\* of the smallest such order f; the lists above f are left alone.
C14_OrderSelection ==
    [][AllocStepServable
       => LET f == FirstFit(SmallestOrder(arg'))
              p == Head(free_area[f])
          IN  /\ status' = "ok"
              /\ ret' = p * Pow2(MIN_ORDER)
              /\ \A i \in 1 .. Len(free_area'[f]) : free_area'[f][i] # p
              /\ \A o \in (f + 1) .. MAX_ORDER : free_area'[o] = free_area[o]]_vars

\* a page was taken from the smallest list while a larger block stayed free
C14_Witness ==
    /\ AllocReturned
    /\ ret # 0
    /\ order[ADDR_TO_PAGE(ret)] = MIN_ORDER
    /\ free_area[MIN_ORDER] = << >>
    /\ free_area[MIN_ORDER + 1] # << >>

\* the free lists after the block with head page p is taken from list f for
\* a request of order t: p leaves list f, and every list of an order o with
\* t <= o < f gets the right half at p's offset plus 2^o as its new head
SplitLists(p, f, t) ==
    [o \in Orders |->
        IF o = f THEN SelectSeq(free_area[o], LAMBDA x : x # p)
        ELSE IF t <= o /\ o < f
        THEN <<(p * Pow2(MIN_ORDER) + Pow2(o)) \div Pow2(MIN_ORDER)>> \o free_area[o]
        ELSE free_area[o]]

\* C15: a successful buddy_alloc that takes head page p of order f for
\* target order t returns p's address, removes p from free_area[f], adds to
\* each free_area[o], t <= o < f, exactly the right half at p's offset plus
\* 2^o, and changes no other list; p is in no free list afterwards.  On a
\* fresh arena buddy_alloc(5000) returns the arena base and leaves one block
\* in the list of order MIN_ORDER + 1 and the list of MAX_ORDER empty.
C15_SplitEffect ==
    [][AllocStepServable
       => LET t == SmallestOrder(arg')
              f == FirstFit(t)
              p == Head(free_area[f])
          IN  /\ ret' = p * Pow2(MIN_ORDER)
              /\ free_area' = SplitLists(p, f, t)
              /\ \A sl \in UNION {{<<o, i>> : i \in 1 .. Len(free_area'[o])} :
                                   o \in Orders} : free_area'[sl[1]][sl[2]] # p
              /\ (free_area = InitFreeArea /\ arg' = 5000)
                     => /\ ret' = 0
                        /\ Len(free_area'[MIN_ORDER + 1]) = 1
                        /\ free_area'[MAX_ORDER] = << >>]_vars

\* buddy_alloc(5000) on the fresh arena
C15_Witness ==
    /\ AllocReturned
    /\ arg = 5000
    /\ ret = 0
    /\ allocated = {Block(0, MIN_ORDER + 1)}
    /\ free_area[MIN_ORDER] = << >>
    /\ free_area[MIN_ORDER + 1] = <<2>>
    /\ free_area[MAX_ORDER] = << >>

\* a buddy_free step on a block the caller holds
FreeStepHeld == status = "ok" /\ op' = "free" /\ arg' \in Held

\* the buddy of the block of order o with head page p is in the list fa
BuddyIn(fa, p, o) ==
    \E i \in 1 .. Len(fa) :
        AreBuddies(p * Pow2(MIN_ORDER), fa[i] * Pow2(MIN_ORDER), o)

\* C16: a buddy_free of a held block of order o whose buddy is not in
\* free_area[o], be that list empty or not, puts the block's head page at
\* the head of free_area[o] and changes no order field and no other list.
C16_FreeWithoutMerge ==
    [][(/\ FreeStepHeld
        /\ ~BuddyIn(free_area[order[arg' \div Pow2(MIN_ORDER)]],
                    arg' \div Pow2(MIN_ORDER), order[arg' \div Pow2(MIN_ORDER)]))
       => LET p == arg' \div Pow2(MIN_ORDER)
          IN  /\ status' = "ok"
              /\ order' = order
              /\ free_area' = [free_area EXCEPT ![order[p]] = <<p>> \o @]]_vars

\* the freed page went in front of a block that is not its buddy
C16_Witness ==
    /\ op = "free"
    /\ status = "ok"
    /\ arg # NULL
    /\ LET p == arg \div Pow2(MIN_ORDER)
       IN  /\ order[p] \in Orders
           /\ Len(free_area[order[p]]) >= 2
           /\ Head(free_area[order[p]]) = p

\* offset a with its low n bits cleared
ClearLow(a, n) == (a \div Pow2(n)) * Pow2(n)

\* the head page of the buddy of the order-j block that offset a lies in
BuddyPageAt(a, j) ==
    (IF (a \div Pow2(j)) % 2 = 0 THEN ClearLow(a, j) + Pow2(j)
     ELSE ClearLow(a, j) - Pow2(j)) \div Pow2(MIN_ORDER)

\* the number of consecutive orders o, o+1, .. below MAX_ORDER at which the
\* buddy of the block around offset a is in that order's free list
RECURSIVE MergeCount(_, _)
MergeCount(a, o) ==
    IF o < MAX_ORDER /\ BuddyIn(free_area[o], ClearLow(a, o) \div Pow2(MIN_ORDER), o)
    THEN 1 + MergeCount(a, o + 1)
    ELSE 0

\* C17: buddy_free(a) of a held block of order o, with k the number of
\* consecutive orders from o at which the buddy of the growing block is
\* free, ends with a in exactly one free block, of order o + k, headed by
\* the page at a's offset with its low o + k bits cleared; each merged buddy
\* has left its list, the higher-indexed head of each merged pair has order
\* -1, the survivor has order o + k, and nothing else changes.
C17_CoalescingResult ==
    [][FreeStepHeld
       => LET a == arg'
              o == order[a \div Pow2(MIN_ORDER)]
              k == MergeCount(a, o)
              h == ClearLow(a, o + k) \div Pow2(MIN_ORDER)
              Absorbed == {(ClearLow(a, j + 1) + Pow2(j)) \div Pow2(MIN_ORDER) :
                              j \in o .. (o + k - 1)}
          IN  /\ status' = "ok"
              /\ free_area' =
                     [j \in Orders |->
                         IF j = o + k THEN <<h>> \o free_area[j]
                         ELSE IF o <= j /\ j < o + k
                         THEN SelectSeq(free_area[j], LAMBDA x : x # BuddyPageAt(a, j))
                         ELSE free_area[j]]
              /\ order' =
                     [q \in Pages |->
                         IF q = h THEN o + k
                         ELSE IF q \in Absorbed THEN -1
                         ELSE order[q]]
              /\ Cardinality({sl \in FreeSlots' :
                     (a \div Pow2(MIN_ORDER)) \in BlockPages(SlotAddr(sl)', sl[1])}) = 1]_vars

\* the freed page 1 was merged into its free buddy, page 0, and the merge
\* stopped there because the next buddy is held
C17_Witness ==
    /\ op = "free"
    /\ status = "ok"
    /\ arg = Pow2(MIN_ORDER)
    /\ order[0] = MIN_ORDER + 1
    /\ order[1] = -1
    /\ free_area[MIN_ORDER + 1] = <<0>>
    /\ allocated # {}

\* the calls buddy_free makes in a FreeStepHeld step
FreeCalls == buddy_free_calls(Mem(order, free_area, NULL), arg')

\* C18: every buddy_free of a held block returns, after at most
\* MAX_ORDER - MIN_ORDER merges; it stops at an order at which the buddy is
\* not free or at MAX_ORDER; and no order field ever exceeds MAX_ORDER.
C18_FreeTerminates ==
    [][/\ \A q \in Pages : order'[q] <= MAX_ORDER
       /\ FreeStepHeld
            => /\ status' = "ok"
               /\ Len(FreeCalls) <= MAX_ORDER - MIN_ORDER + 1
               /\ Cardinality({i \in 1 .. Len(FreeCalls) : FreeCalls[i].merged})
                      <= MAX_ORDER - MIN_ORDER
               /\ \A sl \in {x \in FreeSlots' :
                            (arg' \div Pow2(MIN_ORDER))
                                \in BlockPages(SlotAddr(x)', x[1])} :
                      /\ sl[1] - order[arg' \div Pow2(MIN_ORDER)]
                             = Cardinality({i \in 1 .. Len(FreeCalls) :
                                               FreeCalls[i].merged})
                      /\ \/ sl[1] = MAX_ORDER
                         \/ ~BuddyIn(free_area'[sl[1]], SlotPage(sl)', sl[1])]_vars

\* a buddy_free of a page merged all the way up to MAX_ORDER
C18_Witness ==
    /\ op = "free"
    /\ status = "ok"
    /\ arg = (n_pages - 1) * Pow2(MIN_ORDER)
    /\ order[0] = MAX_ORDER
    /\ free_area[MAX_ORDER] = <<0>>

\* the buddy address of call c lies in the arena, differs from the block's
\* own offset in exactly bit c.order, and is not one of an order-MAX_ORDER
\* block
BuddyInArena(c) ==
    c.scanned
        => /\ c.order < MAX_ORDER
           /\ 0 <= c.buddyAddr
           /\ c.buddyAddr < Pow2(MAX_ORDER)
           /\ AreBuddies(c.addr, c.buddyAddr, c.order)
           /\ (c.buddyAddr \div Pow2(MIN_ORDER)) \in 0 .. (Pow2(MAX_ORDER - MIN_ORDER) - 1)

\* the buddy addresses splitBlock computes in an AllocStepServable step
SplitCalls ==
    LET t == getOrder(arg').val
        f == scanFreeOrder(free_area, t)
    IN  splitBlock_calls(f, t, Head(free_area[f]))

\* C19: every buddy address that splitBlock or buddy_free computes in a
\* well-formed call has an offset in [0, 2^MAX_ORDER) that differs from the
\* block's own offset in exactly bit o, and a page index inside the page
\* table; none is computed for a block of order MAX_ORDER.
C19_BuddyInsideArena ==
    [][/\ FreeStepHeld => \A i \in 1 .. Len(FreeCalls) : BuddyInArena(FreeCalls[i])
       /\ AllocStepServable
            => \A i \in 1 .. Len(SplitCalls) : BuddyInArena(SplitCalls[i])]_vars

\* the last page of the arena was freed beside a free block that is not its
\* buddy: its buddy address was computed and not found
C19_Witness ==
    /\ op = "free"
    /\ status = "ok"
    /\ arg = (n_pages - 1) * Pow2(MIN_ORDER)
    /\ Len(free_area[MIN_ORDER]) >= 2
    /\ Head(free_area[MIN_ORDER]) = n_pages - 1

\* the order page q has as the head of a free block or of a held block, and
\* -1 when it heads neither
HeadOrder(q) ==
    IF \E sl \in FreeSlots : SlotPage(sl) = q
    THEN (CHOOSE sl \in FreeSlots : SlotPage(sl) = q)[1]
    ELSE IF \E b \in allocated : b.addr = q * Pow2(MIN_ORDER)
    THEN (CHOOSE b \in allocated : b.addr = q * Pow2(MIN_ORDER)).order
    ELSE -1

\* C20: between calls a page's order field is the order of the free block
\* or of the held block it heads (for a held block, the order of its
\* request), and -1 for every page that heads no block.
C20_OrderField == \A q \in Pages : order[q] = HeadOrder(q)

\* a held page, free blocks of two orders and a page inside a larger block
C20_Witness ==
    /\ AllocReturned
    /\ \E b \in allocated : b.order = MIN_ORDER
    /\ \E sl \in FreeSlots : sl[1] = MIN_ORDER
    /\ \E sl \in FreeSlots : sl[1] = MIN_ORDER + 1
    /\ order[n_pages - 1] = -1

====
